---- MODULE Spec2Model ----
(***************************************************************************)
(* Job tracking and background pipelines of datatalk-backend.             *)
(*                                                                         *)
(*   core/status_tracker.py   StatusTracker: the in-memory job store       *)
(*   core/file_manager.py     save_upload_file_securely                    *)
(*   utils/file_validator.py  valid_content_length                         *)
(*   router/file_upload.py    upload_csv, process_uploaded_file            *)
(*   router/chat.py           ask_question                                 *)
(*   services/ai_analyst.py   AIAnalyst.analyze_background                 *)
(*                                                                         *)
(* The specifications share the store:                                     *)
(*   Spec       the request handlers and their background tasks            *)
(*   FairSpec   Spec, with an event loop that keeps running ready tasks    *)
(*   AnalysisSpec  questions about a dataset that is on disk already        *)
(*   StoreSpec  concurrent callers issuing arbitrary StatusTracker calls   *)
(* `async with self._lock` is an await (the acquisition) followed by the   *)
(* synchronous body and the release.  The callers of StoreSpec wait at the *)
(* acquisition.  A handler or task of Spec takes one step for each call of *)
(* the tracker and the synchronous code after it; a call that finds the    *)
(* lock free does not suspend the task, so the steps of one turn of the    *)
(* event loop follow each other with no step of another task in between,   *)
(* and a call that finds the lock taken waits.                             *)
(***************************************************************************)
EXTENDS Integers, Sequences, FiniteSets, TLC

\* ---------------------------------------------------------------- bounds
MaxUploads == 1     \* POST /upload/csv requests
MaxChats == 1       \* POST /chat/ask requests
MaxGen == 2         \* JobData objects ever constructed for one job id
MaxClock == 2       \* last instant of the modelled clock
NumCallers == 2     \* concurrent callers of the store in StoreSpec
MaxCalls == 3       \* store calls issued in StoreSpec

\* job ids: one per request, also the ids the callers of StoreSpec use
MaxJobs == MaxUploads + MaxChats
JobIds == 1..MaxJobs
Callers == 1..NumCallers

\* ------------------------------------------------------ optional values
\* Python's None is the empty tuple, a present value v is <<v>>.
None == << >>
Some(v) == <<v>>
IsNone(o) == o = << >>
TheVal(o) == o[1]

\* ------------------------------------------------------------ JobStatus
PENDING == "pending"
PROCESSING == "processing"
COMPLETED == "completed"
FAILED == "failed"
JobStatus == {PENDING, PROCESSING, COMPLETED, FAILED}

\* The class body of JobData is evaluated once, at import: the defaults of
\* created_at and updated_at are the value datetime.utcnow() had then.
ImportTime == 0

VARIABLES
    objs,       \* heap of JobData objects: reference <<job_id, n>> -> fields
    _jobs,      \* StatusTracker._jobs: job id -> n of its current object, 0 if absent
    _locked,    \* StatusTracker._lock is taken
    inside,     \* tasks that are inside an `async with self._lock` block
    now,        \* the clock read by datetime.utcnow()
    \* ---- request handlers and background tasks (Spec)
    pc,         \* job id -> position of the job's handler / background task
    loc,        \* job id -> locals of the handler / task
    temp,       \* job id -> storage/temp/<id>_<name>: None or <<bytes written>>
    processed,  \* job id -> storage/processed/<id>.parquet exists
    scheduled,  \* job id -> background_tasks.add_task was called
    raised,     \* job id -> what was raised first in the try block of upload_csv
    response,   \* job id -> HTTP response of the handler: None or <<status code>>
    \* ---- store callers (StoreSpec)
    cpc,        \* caller -> "idle" | "wait" | "cs"
    call,       \* caller -> the call being made
    ret,        \* caller -> value returned by the caller's last get_status
    snap,       \* caller -> fields of ret at the moment it was returned
    ncalls,     \* store calls issued so far
    lastOp      \* job id -> the call addressed to it that returned last: [op, out]

storeVars == <<objs, _jobs, _locked, inside, now>>
pipeVars == <<pc, loc, temp, processed, scheduled, raised, response>>
callerVars == <<cpc, call, ret, snap, ncalls, lastOp>>
vars == <<storeVars, pipeVars, callerVars>>

\* tasks that may hold the lock
CallerTask(c) == <<"caller", c>>

\* ----------------------------------------------------------------- store
\* JobData(job_id=job_id): every other field takes its class default.
JobData(job_id) ==
    [job_id |-> job_id, status |-> PENDING, progress |-> 0,
     message |-> "Initialized", created_at |-> ImportTime,
     updated_at |-> ImportTime, result |-> None, error |-> None]

\* reference held by self._jobs for job_id (only when job_id in self._jobs)
CurRef(job_id) == <<job_id, _jobs[job_id]>>
Has(job_id) == _jobs[job_id] # 0

\* (mutant) an acquisition that does not wait for the lock to be free
LockAcquire_nowait(task) ==
    /\ _locked' = TRUE
    /\ inside' = inside \cup {task}

\* async with self._lock: the acquisition.  asyncio.Lock.acquire returns
\* only when the lock is not taken, and takes it.
LockAcquire(task) ==
    /\ ~_locked
    /\ _locked' = TRUE
    /\ inside' = inside \cup {task}

\* leaving the `async with` block: Lock.release
LockRelease(task) ==
    /\ _locked' = FALSE
    /\ inside' = inside \ {task}

\* body of create_job: a new JobData object replaces whatever the key held
create_job(job_id) ==
    /\ objs' = (<<job_id, _jobs[job_id] + 1>> :> JobData(job_id)) @@ objs
    /\ _jobs' = [_jobs EXCEPT ![job_id] = @ + 1]

\* (mutant) update_status that inserts a record for an id it does not find
update_status_upsert(job_id, status, message, progress) ==
    /\ IF Has(job_id)
       THEN /\ objs' = [objs EXCEPT ![CurRef(job_id)] =
                [@ EXCEPT !.status = status,
                          !.updated_at = now,
                          !.message = IF ~IsNone(message) /\ TheVal(message) # ""
                                      THEN TheVal(message) ELSE @,
                          !.progress = IF ~IsNone(progress)
                                       THEN TheVal(progress) ELSE @]]
            /\ _jobs' = _jobs
       ELSE /\ objs' = (<<job_id, 1>> :> [JobData(job_id) EXCEPT !.status = status]) @@ objs
            /\ _jobs' = [_jobs EXCEPT ![job_id] = 1]

\* the heap after the body of update_status(job_id, status, message,
\* progress); message and progress are optional, `if message:` also skips
\* the empty string
Updated(job_id, status, message, progress) ==
    IF Has(job_id)
    THEN [objs EXCEPT ![CurRef(job_id)] =
             [@ EXCEPT !.status = status,
                       !.updated_at = now,
                       !.message = IF ~IsNone(message) /\ TheVal(message) # ""
                                   THEN TheVal(message) ELSE @,
                       !.progress = IF ~IsNone(progress)
                                    THEN TheVal(progress) ELSE @]]
    ELSE objs

\* body of update_status
update_status(job_id, status, message, progress) ==
    /\ objs' = Updated(job_id, status, message, progress)
    /\ _jobs' = _jobs

\* body of set_result
set_result(job_id, result) ==
    /\ IF Has(job_id)
       THEN objs' = [objs EXCEPT ![CurRef(job_id)] =
                [@ EXCEPT !.result = Some(result),
                          !.status = COMPLETED,
                          !.progress = 100,
                          !.message = "Processing complete",
                          !.updated_at = now]]
       ELSE objs' = objs
    /\ _jobs' = _jobs

\* (mutant) error kept on the class: every stored job gets it
set_error_shared(job_id, error_message) ==
    /\ IF Has(job_id)
       THEN objs' = [r \in DOMAIN objs |->
                IF r = CurRef(job_id)
                THEN [objs[r] EXCEPT !.error = Some(error_message),
                                     !.status = FAILED,
                                     !.message = "Processing failed",
                                     !.updated_at = now]
                ELSE [objs[r] EXCEPT !.error = Some(error_message)]]
       ELSE objs' = objs
    /\ _jobs' = _jobs

\* body of set_error
set_error(job_id, error_message) ==
    /\ IF Has(job_id)
       THEN objs' = [objs EXCEPT ![CurRef(job_id)] =
                [@ EXCEPT !.error = Some(error_message),
                          !.status = FAILED,
                          !.message = "Processing failed",
                          !.updated_at = now]]
       ELSE objs' = objs
    /\ _jobs' = _jobs

\* self._jobs.get(job_id): the stored object itself, or None
get_status(job_id) == IF Has(job_id) THEN Some(CurRef(job_id)) ELSE None

\* list(self._jobs.values()): the stored objects themselves
list_active_jobs == {CurRef(j) : j \in {i \in JobIds : Has(i)}}

\* (mutant) a read that stamps the records it has gone through
StoreRead_touch ==
    /\ objs' = [r \in DOMAIN objs |-> [objs[r] EXCEPT !.updated_at = now]]
    /\ _jobs' = _jobs

\* get_status and list_active_jobs leave the store as it is
StoreRead == UNCHANGED <<objs, _jobs>>

\* the record a client sees for job_id, None when absent
Record(job_id) == IF Has(job_id) THEN Some(objs[CurRef(job_id)]) ELSE None

\* datetime.utcnow() moves on
Tick ==
    /\ now < MaxClock
    /\ now' = now + 1
    /\ UNCHANGED <<objs, _jobs, _locked, inside, pipeVars, callerVars>>

\* ------------------------------------------- request handlers and tasks
\* Sizes are counted in chunks: file.read returns at most 1 MiB, one unit.
\* settings.files.max_file_size is the configured maximum; the limit that
\* save_upload_file_securely applies is max_file_size * 1024 * 1024, and
\* Scale stands for that factor.
max_file_size == 1
Scale == 4
MAX_SIZE == max_file_size * Scale
ChunkSize == 1

\* utils/file_validator.py: the bound of the Content-Length header, the
\* same product
MAX_FILE_SIZE == max_file_size * Scale

\* Content-Length headers of the requests: missing, or a number
ContentLengths ==
    {None, Some(1), Some(MAX_FILE_SIZE - 1), Some(MAX_FILE_SIZE), Some(MAX_FILE_SIZE + 1)}

\* Depends(valid_content_length): Header(..., lt=MAX_FILE_SIZE); a request
\* that does not pass is answered 422 and upload_csv is not entered
valid_content_length(content_length) ==
    ~IsNone(content_length) /\ TheVal(content_length) < MAX_FILE_SIZE

NoLocals == [kind |-> "none", file_size_header |-> None, file_size |-> 0, e |-> None,
             file_id |-> 0, code |-> None, answer |-> None]

Goto(j, p) == pc' = [pc EXCEPT ![j] = p]

\* an exception e leaves the try block for the handler at position p
Except(j, e, p) ==
    /\ pc' = [pc EXCEPT ![j] = p]
    /\ loc' = [loc EXCEPT ![j].e = Some(e)]

\* str(e) of an exception: the pieces its message is put together from
Msg(text) == <<text>>

\* the coroutine is over: its locals are gone
Return(j, p) ==
    /\ pc' = [pc EXCEPT ![j] = p]
    /\ loc' = [loc EXCEPT ![j] = [NoLocals EXCEPT !.kind = loc[j].kind]]

\* positions inside a turn of the event loop: the task has been resumed and
\* is at a call of the tracker, which suspends it only if the lock is taken
MidTurn == {"up_fail", "up_get", "bg_u30", "bg_u60", "bg_u90", "bg_res", "bg_err",
            "an_u30", "an_u60", "an_u90", "an_res", "an_err"}

\* job k's handler or task is running a turn of the event loop
Running(k) == pc[k] \in MidTurn /\ ~_locked

\* The handlers and tasks are coroutines of one event loop, which has one
\* thread: a coroutine is resumed only when no other is running.
\* exec(cleaned_code) runs on that thread: while generated code that does
\* not return is running, no other coroutine is resumed; and a SystemExit or
\* KeyboardInterrupt that leaves a task is raised again out of the loop,
\* which then runs no coroutine any more.
Holds(k) == pc[k] \in {"an_exec", "exited"} \/ Running(k)
LoopRuns(j) == \A k \in JobIds \ {j} : ~Holds(k)

\* `async with self._lock` around one of the tracker's bodies, as a task of
\* the event loop goes through it: Lock.acquire does not suspend the task
\* when the lock is free, the body has no await, and the lock is released
\* at the end of the block
WithLock(j) ==
    /\ LoopRuns(j)
    /\ ~_locked
    /\ UNCHANGED <<_locked, inside, now, callerVars>>

\* uuid4 gives an id no request has used: the lowest unused one
Fresh(j) == LoopRuns(j) /\ pc[j] = "idle" /\ \A i \in JobIds : i < j => pc[i] # "idle"

\* os.remove(path) / Path.unlink() of an existing temp file: it is gone,
\* or the call raises and the file stays
RemoveOk(j) == temp' = [temp EXCEPT ![j] = None]
RemoveRaises(j) == ~IsNone(temp[j]) /\ temp' = temp

\* what open and read_csv raise for a path that is not there
NoSuchFile == Msg("[Errno 2] No such file or directory")

\* POST /upload/csv: the Content-Length header is validated; then
\* file_id = str(uuid.uuid4()), which names no file that is on disk; await
\* tracker.create_job.  The body may be shorter or longer than the header
\* says.
upload_csv(j) ==
    /\ Fresh(j)
    /\ ~processed[j] /\ IsNone(temp[j])
    /\ Cardinality({i \in JobIds : loc[i].kind = "upload"}) < MaxUploads
    /\ \E content_length \in ContentLengths :
          IF valid_content_length(content_length)
          THEN /\ pc' = [pc EXCEPT ![j] = "up_create"]
               /\ loc' = [loc EXCEPT ![j].kind = "upload",
                                     ![j].file_size_header = content_length]
               /\ response' = response
          ELSE /\ pc' = [pc EXCEPT ![j] = "done"]            \* 422, no job
               /\ loc' = [loc EXCEPT ![j].kind = "upload"]
               /\ response' = [response EXCEPT ![j] = Some(422)]
    /\ UNCHANGED <<storeVars, temp, processed, scheduled, raised, callerVars>>

\* except Exception as e in upload_csv, up to await tracker.set_error:
\* if file_path.exists(): os.remove(file_path)
UploadExcept(j, e) ==
    \/ /\ RemoveOk(j)
       /\ Except(j, e, "up_fail")
       /\ response' = response
    \/ /\ RemoveRaises(j)                              \* os.remove raises: 500
       /\ Return(j, "done")
       /\ response' = [response EXCEPT ![j] = Some(500)]

\* except clause of save_upload_file_securely: unlink the partial file and
\* re-raise into the except clause of upload_csv
SaveExcept(j, e) ==
    \/ /\ temp' = [temp EXCEPT ![j] = None]
       /\ Except(j, e, "up_fail")
       /\ response' = response
    \/ /\ ~IsNone(temp[j])                             \* unlink raises
       /\ UploadExcept(j, Msg("unlink failed"))

\* create_job, temp_dir.mkdir, then save_upload_file_securely up to its
\* first await file.read: destination.open("wb") creates the empty file
UploadCreate(j) ==
    /\ pc[j] = "up_create"
    /\ create_job(j)
    /\ WithLock(j)
    /\ \/ /\ Goto(j, "up_read")                        \* file opened
          /\ temp' = [temp EXCEPT ![j] = Some(0)]
          /\ UNCHANGED <<loc, response, raised>>
       \/ /\ SaveExcept(j, Msg("open failed"))            \* open raises
          /\ raised' = [raised EXCEPT ![j] = "open"]
       \/ /\ Return(j, "done")                         \* mkdir raises, outside the try
          /\ response' = [response EXCEPT ![j] = Some(500)]
          /\ UNCHANGED <<temp, raised>>
    /\ UNCHANGED <<processed, scheduled>>

\* chunk = await file.read(1024 * 1024) returns: one turn of the loop of
\* save_upload_file_securely and, after the last one, the rest of
\* upload_csv up to its next await
UploadRead(j) ==
    /\ pc[j] = "up_read"
    /\ LoopRuns(j)
    /\ LET size == loc[j].file_size + ChunkSize IN
       \/ /\ size > MAX_SIZE                           \* the chunk crosses the limit
          /\ SaveExcept(j, Msg("413: File too large (stopped reading)"))
          /\ raised' = [raised EXCEPT ![j] = "413"]
          /\ scheduled' = scheduled
       \/ /\ size <= MAX_SIZE                          \* buffer.write(chunk)
          /\ temp' = [temp EXCEPT ![j] =               \* (into the open file, which
                         IF IsNone(@) THEN None         \* may be off its path)
                         ELSE Some(TheVal(@) + ChunkSize)]
          /\ loc' = [loc EXCEPT ![j].file_size = size]
          /\ UNCHANGED <<pc, response, scheduled, raised>>
       \/ /\ SaveExcept(j, Msg("read failed"))              \* file.read raises
          /\ raised' = [raised EXCEPT ![j] = "read"]
          /\ scheduled' = scheduled
       \/ /\ loc[j].file_size > 0 /\ ~IsNone(temp[j])  \* end of stream; the preview parses
          /\ Goto(j, "up_get")
          /\ scheduled' = [scheduled EXCEPT ![j] = TRUE]
          /\ UNCHANGED <<loc, temp, response, raised>>
       \/ /\ IsNone(temp[j])                           \* pd.read_csv: the file is gone
          /\ UploadExcept(j, NoSuchFile)
          /\ raised' = [raised EXCEPT ![j] = "preview"]
          /\ scheduled' = scheduled
       \/ /\ loc[j].file_size = 0 /\ ~IsNone(temp[j])  \* pd.read_csv: EmptyDataError
          /\ UploadExcept(j, Msg("No columns to parse from file"))
          /\ raised' = [raised EXCEPT ![j] = "preview"]
          /\ scheduled' = scheduled
       \/ /\ loc[j].file_size > 0 /\ ~IsNone(temp[j])  \* pd.read_csv: ParserError
          /\ UploadExcept(j, Msg("Error tokenizing data"))
          /\ raised' = [raised EXCEPT ![j] = "preview"]
          /\ scheduled' = scheduled
       \/ /\ loc[j].file_size > 0 /\ ~IsNone(temp[j])  \* len(df_preview.columns) < 1
          /\ UploadExcept(j, Msg("CSV has no columns"))
          /\ raised' = [raised EXCEPT ![j] = "preview"]
          /\ scheduled' = scheduled
    /\ UNCHANGED <<storeVars, processed, callerVars>>

\* await tracker.set_error(file_id, str(e)); raise HTTPException(400)
UploadFail(j) ==
    /\ pc[j] = "up_fail"
    /\ set_error(j, TheVal(loc[j].e))
    /\ WithLock(j)
    /\ Return(j, "done")
    /\ response' = [response EXCEPT ![j] = Some(400)]
    /\ UNCHANGED <<temp, processed, scheduled, raised>>

\* job = await tracker.get_status(file_id); return UploadResponse(...,
\* upload_time=job.created_at, status=job.status).  The background task
\* queued by add_task starts once the response is sent; when the job is not
\* in the store, job.created_at raises AttributeError: the answer is 500
\* and the queued task is not run.
UploadRespond(j) ==
    /\ pc[j] = "up_get"
    /\ StoreRead
    /\ WithLock(j)
    /\ IF IsNone(get_status(j))
       THEN /\ Return(j, "done")
            /\ response' = [response EXCEPT ![j] = Some(500)]
       ELSE /\ Return(j, "bg_u10")
            /\ response' = [response EXCEPT ![j] = Some(200)]
    /\ UNCHANGED <<temp, processed, scheduled, raised>>

\* GET /upload/status/{file_id}: job = await tracker.get_status(file_id);
\* 404 when there is none, else the record
get_upload_status(j) ==
    /\ \A k \in JobIds : ~Holds(k)
    /\ ~_locked
    /\ UNCHANGED <<_locked, inside, now, callerVars>>
    /\ StoreRead
    /\ UNCHANGED pipeVars

\* ---- process_uploaded_file
\* update_status(file_id, PROCESSING, message, progress) and the
\* synchronous stage after it, which returns (next) or raises
IngestStage(j, at, message, progress, next, error) ==
    /\ pc[j] = at
    /\ update_status(j, PROCESSING, Some(message), Some(progress))
    /\ WithLock(j)
    /\ \/ Goto(j, next) /\ loc' = loc
       \/ Except(j, error, "bg_err")
    /\ UNCHANGED <<temp, processed, scheduled, raised, response>>

\* "Loading data...", 10; df = pd.read_csv(file_path)
IngestLoad(j) ==
    /\ pc[j] = "bg_u10"
    /\ update_status(j, PROCESSING, Some("Loading data..."), Some(10))
    /\ WithLock(j)
    /\ \/ ~IsNone(temp[j]) /\ Goto(j, "bg_u30") /\ loc' = loc
       \/ ~IsNone(temp[j]) /\ Except(j, Msg("Error tokenizing data"), "bg_err")
       \/ IsNone(temp[j]) /\ Except(j, NoSuchFile, "bg_err")      \* the file is gone
    /\ UNCHANGED <<temp, processed, scheduled, raised, response>>

\* "Cleaning data...", 30; processor.clean_data(df)
IngestClean(j) ==
    IngestStage(j, "bg_u30", "Cleaning data...", 30, "bg_u60", Msg("clean_data failed"))

\* "Generating profile...", 60; processor.generate_profile(cleaned_df)
IngestProfile(j) ==
    IngestStage(j, "bg_u60", "Generating profile...", 60, "bg_u90", Msg("float division by zero"))

\* "Saving results...", 90; os.makedirs; cleaned_df.to_parquet(processed_path)
IngestSave(j) ==
    /\ pc[j] = "bg_u90"
    /\ update_status(j, PROCESSING, Some("Saving results..."), Some(90))
    /\ WithLock(j)
    /\ \/ /\ Goto(j, "bg_res")                        \* written
          /\ loc' = loc
          /\ processed' = [processed EXCEPT ![j] = TRUE]
       \/ /\ Except(j, Msg("to_parquet failed"), "bg_err") \* raises, nothing written
          /\ processed' = processed
       \/ /\ Except(j, Msg("to_parquet failed"), "bg_err") \* raises, file left behind
          /\ processed' = [processed EXCEPT ![j] = TRUE]
    /\ UNCHANGED <<temp, scheduled, raised, response>>

\* set_result(file_id, result_data); if os.path.exists: os.remove
IngestResult(j) ==
    /\ pc[j] = "bg_res"
    /\ set_result(j, <<"profile">>)
    /\ WithLock(j)
    /\ \/ /\ RemoveOk(j)
          /\ Return(j, "done")
       \/ /\ RemoveRaises(j)                          \* os.remove raises
          /\ Except(j, Msg("remove failed"), "bg_err")
    /\ UNCHANGED <<processed, scheduled, raised, response>>

\* except Exception as e: set_error(file_id, str(e)); remove the temp file
IngestError(j) ==
    /\ pc[j] = "bg_err"
    /\ set_error(j, TheVal(loc[j].e))
    /\ WithLock(j)
    /\ \/ RemoveOk(j) /\ Return(j, "done")
       \/ RemoveRaises(j) /\ Return(j, "crashed")      \* os.remove raises, the task dies
    /\ UNCHANGED <<processed, scheduled, raised, response>>

\* ---- POST /chat/ask and AIAnalyst.analyze_background
\* code the model may return, and what exec makes of it.  exec is given
\* empty globals, so the builtins are in reach of the code: exit, and
\* import, with it the filesystem and the objects of the running
\* interpreter, the tracker among them.
RmDatasets == "import shutil; shutil.rmtree('storage/processed', ignore_errors=True); result = 0"
RmTemp == "import shutil; shutil.rmtree('storage/temp', ignore_errors=True); result = 0"
ClearJobs == "from core.status_tracker import tracker; tracker._jobs.clear(); result = 1"
SetProgress == "from core.status_tracker import tracker\nfor job in tracker._jobs.values(): job.progress = 55\nresult = 1"
SetError == "from core.status_tracker import tracker\nfor job in tracker._jobs.values(): job.error = 'x'\nresult = 1"
SetStatus == "from core.status_tracker import tracker, JobStatus\nfor job in tracker._jobs.values(): job.status = JobStatus.COMPLETED\nresult = 1"
TakeLock == "from core.status_tracker import tracker; tracker._lock._locked = True; result = 1"
WriteDatasets == "import os\nfrom core.status_tracker import tracker\nos.makedirs('storage/processed', exist_ok=True)\nfor job_id in tracker._jobs: df.to_parquet(f'storage/processed/{job_id}.parquet')\nresult = 1"
Codes == {"result = len(df)", "result = df.head()", "n = len(df)", "result = df['nope']",
          "exit()", "while True: pass", RmDatasets, RmTemp, ClearJobs, SetProgress,
          SetError, SetStatus, TakeLock, WriteDatasets}

\* bodies of POST /chat/ask: each field of ChatRequest is there or missing
Questions == {None, Some(""), Some("how many rows?")}
FileIds == {None} \cup {Some(i) : i \in JobIds}

\* request: ChatRequest, both fields required: a body that does not
\* validate is answered 422 and ask_question is not entered
ChatRequest(file_id, question) == ~IsNone(file_id) /\ ~IsNone(question)

\* exec(cleaned_code, {}, local_vars) returns or raises; it does neither
\* when the code loops for ever
ExecReturns(code) == code # "while True: pass"

\* exec raises an exception that is not an Exception, which neither
\* `except Exception` of analyze_background catches
ExecExits(code) == code \in {"exit()", "raise SystemExit(1)", "raise KeyboardInterrupt"}

\* exec raises an Exception: its text, None otherwise
ExecError(code) == IF code = "result = df['nope']" THEN Some("'nope'") ELSE None

\* local_vars.get("result") after exec has returned: None, a scalar or a table
ExecResult(code) ==
    CASE code \in {"result = len(df)", RmDatasets, RmTemp, ClearJobs, SetProgress,
                   SetError, SetStatus, TakeLock, WriteDatasets}
           -> Some("scalar")
      [] code = "result = df.head()" -> Some("table")
      [] OTHER -> None

\* storage/processed once exec is over: the generated code may delete from
\* it and write to it
ExecFiles(code, files) ==
    IF code = RmDatasets THEN [f \in DOMAIN files |-> FALSE]
    ELSE IF code = WriteDatasets THEN [f \in DOMAIN files |-> files[f] \/ Has(f)]
    ELSE files

\* storage/temp once exec is over
ExecTemp(code, files) ==
    IF code = RmTemp THEN [f \in DOMAIN files |-> None] ELSE files

\* tracker._jobs once exec is over
ExecJobs(code, jobs) ==
    IF code = ClearJobs THEN [id \in DOMAIN jobs |-> 0] ELSE jobs

\* the JobData objects once exec is over
ExecObjs(code, heap) ==
    IF code \in {SetProgress, SetError, SetStatus}
    THEN [r \in DOMAIN heap |->
             IF \E id \in JobIds : Has(id) /\ r = CurRef(id)
             THEN CASE code = SetProgress -> [heap[r] EXCEPT !.progress = 55]
                    [] code = SetError -> [heap[r] EXCEPT !.error = Some(Msg("x"))]
                    [] code = SetStatus -> [heap[r] EXCEPT !.status = COMPLETED]
             ELSE heap[r]]
    ELSE heap

\* tracker._lock._locked once exec is over
ExecLocked(code, locked) == IF code = TakeLock THEN TRUE ELSE locked

\* what the model returns: the code, bare or inside a markdown fence
\* (FENCE stands for the three backquotes of a markdown fence)
LlmOutputs == {<<c>> : c \in Codes} \cup {<<"FENCEpython", c, "FENCE">> : c \in Codes}

\* generated_code.replace(FENCE + "python", "").replace(FENCE, "").strip()
IsFence(piece) == piece \in {"FENCEpython", "FENCE"}
Sanitize(generated_code) == SelectSeq(generated_code, LAMBDA piece : ~IsFence(piece))

\* the POST /chat/ask requests made so far
Chats == {i \in JobIds : loc[i].kind = "chat"}

\* POST /chat/ask: the body is validated; ask_question rejects a blank
\* question, else job_id = str(uuid.uuid4()); await tracker.create_job
ask_question(j) ==
    /\ Fresh(j)
    /\ \E question \in Questions, file_id \in FileIds :
        IF ~ChatRequest(file_id, question)
        THEN /\ pc' = [pc EXCEPT ![j] = "done"]            \* 422, no job
             /\ loc' = [loc EXCEPT ![j].kind = "chat"]
             /\ response' = [response EXCEPT ![j] = Some(422)]
        ELSE IF TheVal(question) = ""                      \* not question.strip()
        THEN /\ pc' = [pc EXCEPT ![j] = "done"]
             /\ loc' = [loc EXCEPT ![j].kind = "chat"]
             /\ response' = [response EXCEPT ![j] = Some(400)]
        ELSE /\ pc' = [pc EXCEPT ![j] = "ch_create"]
             /\ loc' = [loc EXCEPT ![j].kind = "chat", ![j].file_id = TheVal(file_id)]
             /\ response' = response
    /\ UNCHANGED <<storeVars, temp, processed, scheduled, raised, callerVars>>

\* create_job(job_id); add_task(analyze_background); return ChatJobResponse.
\* The task keeps its arguments (file_id).
ChatCreate(j) ==
    /\ pc[j] = "ch_create"
    /\ create_job(j)
    /\ WithLock(j)
    /\ Goto(j, "an_u10")
    /\ scheduled' = [scheduled EXCEPT ![j] = TRUE]
    /\ raised' = raised
    /\ response' = [response EXCEPT ![j] = Some(200)]
    /\ UNCHANGED <<loc, temp, processed>>

\* what the task raises when the dataset of file_id is not on disk
NotFound == Msg("File not found. Please upload again.")

\* "Loading data...", 10; os.path.exists(file_path); pd.read_parquet
AnalyzeLoad(j) ==
    /\ pc[j] = "an_u10"
    /\ update_status(j, PROCESSING, Some("Loading data..."), Some(10))
    /\ WithLock(j)
    /\ \/ /\ ~processed[loc[j].file_id]
          /\ Except(j, NotFound, "an_err")
       \/ /\ processed[loc[j].file_id]
          /\ Goto(j, "an_u30")
          /\ loc' = loc
       \/ /\ processed[loc[j].file_id]
          /\ Except(j, Msg("read_parquet failed"), "an_err")
    /\ UNCHANGED <<temp, processed, scheduled, raised, response>>

\* "Consulting AI...", 30; the prompt; await asyncio.to_thread(...)
AnalyzeAsk(j) ==
    /\ pc[j] = "an_u30"
    /\ update_status(j, PROCESSING, Some("Consulting AI..."), Some(30))
    /\ WithLock(j)
    /\ \/ Goto(j, "an_llm") /\ loc' = loc
       \/ Except(j, Msg("'AIAnalyst' object has no attribute 'client'"), "an_err")
    /\ UNCHANGED <<temp, processed, scheduled, raised, response>>

\* the model call returns or raises; the code is sanitized
AnalyzeLlm(j) ==
    /\ pc[j] = "an_llm"
    /\ LoopRuns(j)
    /\ \/ \E generated_code \in LlmOutputs :
            /\ pc' = [pc EXCEPT ![j] = "an_u60"]
            /\ loc' = [loc EXCEPT ![j].code = Some(Sanitize(generated_code)[1])]
       \/ Except(j, Msg("Connection error."), "an_err")
    /\ UNCHANGED <<storeVars, temp, processed, scheduled, raised, response, callerVars>>

\* what the task raises when exec(cleaned_code) raised code_error
ExecFailure(code_error, cleaned_code) ==
    <<"Generated code failed to execute: ", code_error, "\nCode was: ", cleaned_code>>

\* what the task raises when the code ran and bound no 'result'
NoResult == Msg("The AI code ran but did not assign a 'result' variable.")

\* "Executing analysis...", 60; exec; local_vars.get("result"); formatting.
\* What the generated code does to the store, its lock and the files is
\* done when exec is over.
AnalyzeExec(j) ==
    /\ pc[j] = "an_u60"
    /\ LoopRuns(j)
    /\ ~_locked
    /\ LET cleaned_code == TheVal(loc[j].code)
           code_error == ExecError(cleaned_code)
           final_answer == ExecResult(cleaned_code) IN
       /\ objs' = ExecObjs(cleaned_code,
                           Updated(j, PROCESSING, Some("Executing analysis..."), Some(60)))
       /\ _jobs' = ExecJobs(cleaned_code, _jobs)
       /\ _locked' = ExecLocked(cleaned_code, _locked)
       /\ processed' = ExecFiles(cleaned_code, processed)
       /\ temp' = ExecTemp(cleaned_code, temp)
       /\ IF ~ExecReturns(cleaned_code)
          THEN Goto(j, "an_exec") /\ loc' = loc          \* exec goes on for ever
          ELSE IF ExecExits(cleaned_code)
          THEN Return(j, "exited")                      \* no except clause catches it
          ELSE IF ~IsNone(code_error)
          THEN Except(j, ExecFailure(TheVal(code_error), cleaned_code), "an_err")
          ELSE IF IsNone(final_answer)
          THEN Except(j, NoResult, "an_err")
          ELSE /\ Goto(j, "an_u90")
               /\ loc' = [loc EXCEPT ![j].answer = final_answer]
    /\ UNCHANGED <<inside, now, scheduled, raised, response, callerVars>>

\* "Finalizing...", 90; ChatResult(...).model_dump()
AnalyzeFinal(j) ==
    /\ pc[j] = "an_u90"
    /\ update_status(j, PROCESSING, Some("Finalizing..."), Some(90))
    /\ WithLock(j)
    /\ \/ Goto(j, "an_res") /\ loc' = loc
       \/ /\ loc[j].answer = Some("table")              \* to_dict() keys are not str
          /\ Except(j, Msg("1 validation error for ChatResult"), "an_err")
    /\ UNCHANGED <<temp, processed, scheduled, raised, response>>

\* the payload of a chat job: answer, generated_code, data
ChatResult(answer, code) ==
    IF answer = "table"
    THEN <<"Generated a data table/series (see attached data).", code, "data">>
    ELSE <<answer, code, "None">>

\* await tracker.set_result(job_id, result_payload)
AnalyzeResult(j) ==
    /\ pc[j] = "an_res"
    /\ set_result(j, ChatResult(TheVal(loc[j].answer), TheVal(loc[j].code)))
    /\ WithLock(j)
    /\ Return(j, "done")
    /\ UNCHANGED <<temp, processed, scheduled, raised, response>>

\* except Exception as e: await tracker.set_error(job_id, str(e)).  The
\* task comes here in the turn in which it raised; it waits here only when
\* the lock is taken.
AnalyzeError(j) ==
    /\ pc[j] = "an_err"
    /\ set_error(j, TheVal(loc[j].e))
    /\ WithLock(j)
    /\ Return(j, "done")
    /\ UNCHANGED <<temp, processed, scheduled, raised, response>>

\* ------------------------------------------------- store callers (StoreSpec)
\* arguments the callers pass
CallStatuses == {PENDING, PROCESSING}
CallMessages == {None, Some(""), Some("Loading data...")}
CallProgress == {None, Some(0), Some(10)}
CallResults == {<<"payload">>}
CallErrors == {Msg("boom")}

Calls ==
    [op : {"create_job", "get_status"}, job_id : JobIds]
    \cup [op : {"list_active_jobs"}, job_id : {0}]
    \cup [op : {"update_status"}, job_id : JobIds, status : CallStatuses,
          message : CallMessages, progress : CallProgress]
    \cup [op : {"set_result"}, job_id : JobIds, result : CallResults]
    \cup [op : {"set_error"}, job_id : JobIds, error_message : CallErrors]

NoCall == [op |-> "none", job_id |-> 0]

\* a task calls one of the StatusTracker coroutines
CallIssue(c) ==
    /\ cpc[c] = "idle"
    /\ ncalls < MaxCalls
    /\ \E k \in Calls :
        /\ k.op = "create_job" =>
              _jobs[k.job_id] + Cardinality({d \in Callers :
                  call[d].op = "create_job" /\ call[d].job_id = k.job_id}) < MaxGen
        /\ call' = [call EXCEPT ![c] = k]
    /\ cpc' = [cpc EXCEPT ![c] = "wait"]
    /\ ncalls' = ncalls + 1
    /\ UNCHANGED <<storeVars, pipeVars, ret, snap, lastOp>>

\* async with self._lock
CallAcquire(c) ==
    /\ cpc[c] = "wait"
    /\ LockAcquire(CallerTask(c))
    /\ cpc' = [cpc EXCEPT ![c] = "cs"]
    /\ UNCHANGED <<objs, _jobs, now, pipeVars, call, ret, snap, ncalls, lastOp>>

CallDone(c) ==
    /\ LockRelease(CallerTask(c))
    /\ cpc' = [cpc EXCEPT ![c] = "idle"]
    /\ call' = [call EXCEPT ![c] = NoCall]
    /\ lastOp' = IF call[c].job_id \in JobIds
                 THEN [lastOp EXCEPT ![call[c].job_id] =
                          [op |-> call[c].op,
                           out |-> IF call[c].op = "get_status"
                                   THEN Record(call[c].job_id) ELSE None]]
                 ELSE lastOp
    /\ UNCHANGED <<now, pipeVars, ncalls>>

CallCreateJob(c) ==
    /\ cpc[c] = "cs" /\ call[c].op = "create_job"
    /\ create_job(call[c].job_id)
    /\ CallDone(c)
    /\ UNCHANGED <<ret, snap>>

CallUpdateStatus(c) ==
    /\ cpc[c] = "cs" /\ call[c].op = "update_status"
    /\ update_status(call[c].job_id, call[c].status, call[c].message, call[c].progress)
    /\ CallDone(c)
    /\ UNCHANGED <<ret, snap>>

CallSetResult(c) ==
    /\ cpc[c] = "cs" /\ call[c].op = "set_result"
    /\ set_result(call[c].job_id, call[c].result)
    /\ CallDone(c)
    /\ UNCHANGED <<ret, snap>>

CallSetError(c) ==
    /\ cpc[c] = "cs" /\ call[c].op = "set_error"
    /\ set_error(call[c].job_id, call[c].error_message)
    /\ CallDone(c)
    /\ UNCHANGED <<ret, snap>>

\* the caller keeps what get_status returned; snap is what its fields were
CallGetStatus(c) ==
    /\ cpc[c] = "cs" /\ call[c].op = "get_status"
    /\ StoreRead
    /\ ret' = [ret EXCEPT ![c] = get_status(call[c].job_id)]
    /\ snap' = [snap EXCEPT ![c] = Record(call[c].job_id)]
    /\ CallDone(c)

CallListActiveJobs(c) ==
    /\ cpc[c] = "cs" /\ call[c].op = "list_active_jobs"
    /\ StoreRead
    /\ CallDone(c)
    /\ UNCHANGED <<ret, snap>>

StoreInit ==
    /\ objs = << >>
    /\ _jobs = [j \in JobIds |-> 0]
    /\ _locked = FALSE
    /\ inside = {}
    /\ now = ImportTime

CallerInit ==
    /\ cpc = [c \in Callers |-> "idle"]
    /\ call = [c \in Callers |-> NoCall]
    /\ ret = [c \in Callers |-> None]
    /\ snap = [c \in Callers |-> None]
    /\ ncalls = 0
    /\ lastOp = [j \in JobIds |-> [op |-> "none", out |-> None]]

PipeInit ==
    /\ pc = [j \in JobIds |-> "idle"]
    /\ loc = [j \in JobIds |-> NoLocals]
    /\ temp = [j \in JobIds |-> None]
    /\ processed = [j \in JobIds |-> FALSE]
    /\ scheduled = [j \in JobIds |-> FALSE]
    /\ raised = [j \in JobIds |-> "none"]
    /\ response = [j \in JobIds |-> None]

Init == StoreInit /\ CallerInit /\ PipeInit

StoreNext ==
    \/ Tick
    \/ \E c \in Callers : CallIssue(c)
    \/ \E c \in Callers : CallAcquire(c)
    \/ \E c \in Callers : CallCreateJob(c)
    \/ \E c \in Callers : CallUpdateStatus(c)
    \/ \E c \in Callers : CallSetResult(c)
    \/ \E c \in Callers : CallSetError(c)
    \/ \E c \in Callers : CallGetStatus(c)
    \/ \E c \in Callers : CallListActiveJobs(c)

StoreSpec == Init /\ [][StoreNext]_vars

Next ==
    \/ \E j \in JobIds : upload_csv(j)
    \/ \E j \in JobIds : UploadCreate(j)
    \/ \E j \in JobIds : UploadRead(j)
    \/ \E j \in JobIds : UploadFail(j)
    \/ \E j \in JobIds : UploadRespond(j)
    \/ \E j \in JobIds : get_upload_status(j)
    \/ \E j \in JobIds : IngestLoad(j)
    \/ \E j \in JobIds : IngestClean(j)
    \/ \E j \in JobIds : IngestProfile(j)
    \/ \E j \in JobIds : IngestSave(j)
    \/ \E j \in JobIds : IngestResult(j)
    \/ \E j \in JobIds : IngestError(j)
    \/ \E j \in JobIds : Cardinality(Chats) < MaxChats /\ ask_question(j)
    \/ \E j \in JobIds : ChatCreate(j)
    \/ \E j \in JobIds : AnalyzeLoad(j)
    \/ \E j \in JobIds : AnalyzeAsk(j)
    \/ \E j \in JobIds : AnalyzeLlm(j)
    \/ \E j \in JobIds : AnalyzeExec(j)
    \/ \E j \in JobIds : AnalyzeFinal(j)
    \/ \E j \in JobIds : AnalyzeResult(j)
    \/ \E j \in JobIds : AnalyzeError(j)

Spec == Init /\ [][Next]_vars

\* The event loop runs a task that is ready: as long as some coroutine can
\* take a step, a step is taken.  (Spec leaves the clock alone: nothing the
\* handlers and tasks do depends on the timestamps.)
FairSpec == Init /\ [][Next]_vars /\ WF_vars(Next)

\* The server has been started again: the store, which is in memory, is
\* empty, and the dataset of an upload of the run before is on disk; the
\* requests are uploads and any number of questions.  (File ids and job
\* ids are uuids; the dataset's id is none of the new job ids, they only
\* share the numbering.)
AnalysisInit ==
    /\ StoreInit /\ CallerInit
    /\ pc = [j \in JobIds |-> "idle"]
    /\ loc = [j \in JobIds |-> NoLocals]
    /\ temp = [j \in JobIds |-> None]
    /\ processed = [j \in JobIds |-> j = 1]
    /\ scheduled = [j \in JobIds |-> FALSE]
    /\ raised = [j \in JobIds |-> "none"]
    /\ response = [j \in JobIds |-> None]

AnalysisNext ==
    \/ Next
    \/ \E j \in JobIds : ask_question(j)

AnalysisSpec == AnalysisInit /\ [][AnalysisNext]_vars

\* ------------------------------------------------------------ properties
Status(j) == objs[CurRef(j)].status
Terminal(j) == Has(j) /\ Status(j) \in {COMPLETED, FAILED}
ResultSet(j) == ~IsNone(objs[CurRef(j)].result)
ErrorSet(j) == ~IsNone(objs[CurRef(j)].error)

\* C1: once a job's state is Completed or Failed, no later step of a
\* handler or background task changes that job's state.
C1_TerminalIsFinal ==
    [][\A j \in JobIds : Terminal(j) => (Has(j)' /\ Status(j)' = Status(j))]_vars

\* C2: result and error of a job are never both set.
C2_ResultErrorExclusive ==
    \A j \in JobIds : Has(j) => ~(ResultSet(j) /\ ErrorSet(j))

\* C3: a mutating store operation addressed to one job id leaves the record
\* of every other job id as it was.
C3_NoCrossJobEffect ==
    [][\A c \in Callers :
          (cpc[c] = "cs" /\ cpc'[c] = "idle")
          => \A b \in JobIds \ {call[c].job_id} : Record(b)' = Record(b)]_vars

\* two jobs are in the store and an operation addressed to one of them has
\* changed it
C3_Witness ==
    \E a, b \in JobIds :
        /\ a # b /\ Has(a) /\ Has(b)
        /\ Status(a) = FAILED /\ Status(b) = PENDING

\* C4: at no time are two tasks inside the store's critical section.
C4_OneInsideStore == Cardinality(inside) <= 1

\* one caller is inside the store while another waits to enter
C4_Witness ==
    \E c, d \in Callers : cpc[c] = "cs" /\ cpc[d] = "wait" /\ CallerTask(c) \in inside

\* C5: every job whose background stage has been scheduled eventually
\* reaches Completed or Failed.
C5_ScheduledJobsEnd == \A j \in JobIds : scheduled[j] ~> Terminal(j)

\* C6: a job whose background stage is scheduled or whose id a handler has
\* returned is in the store (get_status finds it), and a record is never
\* removed from the store.
C6_CreatedBeforeReturned ==
    /\ [](\A j \in JobIds :
            (scheduled[j] \/ response[j] = Some(200)) => ~IsNone(get_status(j)))
    /\ [][\A j \in JobIds : Has(j) => Has(j)']_vars

\* C7: the result of a job is set if and only if its state is Completed.
C7_ResultIffCompleted ==
    \A j \in JobIds : Has(j) => (ResultSet(j) <=> Status(j) = COMPLETED)

\* C8: the error of a job is set if and only if its state is Failed.
C8_ErrorIffFailed ==
    \A j \in JobIds : Has(j) => (ErrorSet(j) <=> Status(j) = FAILED)

\* C9: create_job for an id that is already in the store leaves the
\* existing record unchanged (it fails instead of inserting).
C9_DuplicateCreateRejected ==
    [][\A c \in Callers, id \in JobIds :
          (cpc[c] = "cs" /\ cpc'[c] = "idle"
             /\ call[c] = [op |-> "create_job", job_id |-> id] /\ Has(id))
          => Record(id)' = Record(id)]_vars

\* C10: what get_status returned keeps the field values it had when it
\* was returned, whatever is done to the job afterwards.
C10_GetStatusIsSnapshot ==
    \A c \in Callers : ~IsNone(ret[c]) => Some(objs[TheVal(ret[c])]) = snap[c]

\* a caller's call of op on job id returns in this step
Returns(c, op, id) ==
    /\ cpc[c] = "cs" /\ cpc'[c] = "idle"
    /\ call[c].op = op /\ call[c].job_id = id

\* C11: update_status on an existing job gives every supplied field the
\* supplied value (an empty message and a progress of 0 included), keeps
\* every omitted field, and leaves result and error alone.
C11_PartialUpdate ==
    [][\A c \in Callers, id \in JobIds :
          (Returns(c, "update_status", id) /\ Has(id))
          => LET old == objs[CurRef(id)]
                 new == objs'[CurRef(id)]
             IN /\ new.status = call[c].status
                /\ new.message = IF IsNone(call[c].message)
                                 THEN old.message ELSE TheVal(call[c].message)
                /\ new.progress = IF IsNone(call[c].progress)
                                  THEN old.progress ELSE TheVal(call[c].progress)
                /\ new.result = old.result /\ new.error = old.error
                /\ new.job_id = old.job_id /\ new.created_at = old.created_at]_vars

\* C12: update_status, set_result and set_error addressed to an id that is
\* not in the store create no record and leave every record as it was.
C12_AbsentIdIsNoOp ==
    [][\A c \in Callers, id \in JobIds :
          ((\E op \in {"update_status", "set_result", "set_error"} : Returns(c, op, id))
             /\ ~Has(id))
          => (objs' = objs /\ _jobs' = _jobs)]_vars

\* the call that returned last for an absent id is one of the three, and
\* another job is in the store
C12_Witness ==
    \E a, b \in JobIds :
        /\ ~Has(a) /\ lastOp[a].op \in {"update_status", "set_result", "set_error"}
        /\ Has(b)

\* the handler or task of job j is over
Ended(j) == pc[j] \in {"done", "crashed", "exited"}
Upload(j) == loc[j].kind = "upload"
Chat(j) == loc[j].kind = "chat"

\* C13: the chunk that takes an upload over the configured maximum is not
\* written and the save stops; the background stage is not scheduled for an
\* upload that went over it; and when the handler is over after the save
\* raised HTTPException(413), the job is Failed and no file is at the temp
\* path.
C13_OversizeUploadFails ==
    /\ [](\A j \in JobIds :
            ~IsNone(temp[j]) => TheVal(temp[j]) <= max_file_size)
    /\ [][\A j \in JobIds :
            (~scheduled[j] /\ scheduled'[j]) => loc[j].file_size <= max_file_size]_vars
    /\ [](\A j \in JobIds :
            raised[j] = "413" => (~scheduled[j] /\ pc[j] \in {"up_fail", "done"}))
    /\ [](\A j \in JobIds :
            (raised[j] = "413" /\ Ended(j))
            => (Has(j) /\ Status(j) = FAILED /\ IsNone(temp[j])))

\* the pieces of a message include this one
Contains(message, piece) == \E i \in DOMAIN message : message[i] = piece

\* the error stored for job j reports a failed execution of generated code
ExecFailed(j) ==
    /\ Has(j) /\ ErrorSet(j)
    /\ objs[CurRef(j)].error[1][1] = "Generated code failed to execute: "

\* the generated code raises during its execution
ExecRaises(code) == ~IsNone(ExecError(code)) \/ ExecExits(code)

\* C14: when the generated code raises, the task goes to its except clause
\* with a message holding the error text and the code; the except clause
\* makes the job Failed with that message; a job that carries such a message
\* is Failed, has no result, and the message names the code and its error.
C14_ExecErrorFailsJob ==
    /\ [][\A j \in JobIds :
            (pc[j] = "an_u60" /\ pc'[j] # "an_u60"
               /\ ExecRaises(TheVal(loc[j].code)))
            => /\ pc'[j] = "an_err"
               /\ Contains(TheVal(loc'[j].e), TheVal(ExecError(TheVal(loc[j].code))))
               /\ Contains(TheVal(loc'[j].e), TheVal(loc[j].code))]_vars
    /\ [][\A j \in JobIds :
            (pc[j] = "an_err" /\ pc'[j] # "an_err")
            => /\ pc'[j] = "done"
               /\ Has(j)' /\ Status(j)' = FAILED
               /\ objs'[CurRef(j)'].error = Some(TheVal(loc[j].e))
               /\ IsNone(objs'[CurRef(j)'].result)]_vars
    /\ [](\A j \in JobIds :
            ExecFailed(j)
            => LET error == TheVal(objs[CurRef(j)].error) IN
               /\ Status(j) = FAILED /\ ~ResultSet(j)
               /\ Len(error) = 4
               /\ ExecError(error[4]) = Some(error[2]))

\* exec of the generated code returns, having raised nothing
ExecRan(code) == ExecReturns(code) /\ ~ExecRaises(code)

\* C15: when the generated code runs and binds no 'result', the task goes to
\* its except clause with the no-result message, and the except clause makes
\* the job Failed with that message as its error; that message is given
\* for no code that raised, and the
\* execution-error message for no code that ran.
C15_NoResultIsDistinct ==
    /\ [][\A j \in JobIds :
            (pc[j] = "an_u60" /\ pc'[j] # "an_u60"
               /\ ExecRan(TheVal(loc[j].code))
               /\ IsNone(ExecResult(TheVal(loc[j].code))))
            => (pc'[j] = "an_err" /\ loc'[j].e = Some(NoResult))]_vars
    /\ [][\A j \in JobIds :
            (pc[j] = "an_err" /\ loc[j].e = Some(NoResult) /\ pc'[j] # "an_err")
            => /\ pc'[j] = "done"
               /\ Has(j)' /\ Status(j)' = FAILED
               /\ objs'[CurRef(j)'].error = Some(NoResult)]_vars
    /\ [](\A j \in JobIds :
            (pc[j] = "an_err" /\ ~IsNone(loc[j].code))
            => LET e == TheVal(loc[j].e)
                   code == TheVal(loc[j].code) IN
               /\ e = NoResult
                    <=> (ExecRan(code) /\ IsNone(ExecResult(code)))
               /\ e[1] = "Generated code failed to execute: "
                    <=> ~IsNone(ExecError(code)))
    /\ [](\A j \in JobIds :
            (Has(j) /\ objs[CurRef(j)].error = Some(NoResult))
            => (Status(j) = FAILED /\ ~ResultSet(j) /\ ~ExecFailed(j)))

\* C16: once the handler or the background task of an upload is
\* over, no file is at the job's temp path.
C16_NoTempFileLeft ==
    \A j \in JobIds : (Upload(j) /\ Ended(j)) => IsNone(temp[j])

\* C17: get_status changes no record, and a get_status that follows a
\* get_status of the same id, with no other call addressed to that id in
\* between, returns the same field values.
C17_GetStatusIdempotent ==
    [][\A c \in Callers, id \in JobIds :
          Returns(c, "get_status", id)
          => /\ objs' = objs /\ _jobs' = _jobs
             /\ lastOp[id].op = "get_status" => snap'[c] = lastOp[id].out]_vars

\* two callers hold what get_status returned for a job in the store, and
\* no other call addressed to the job returned since
C17_Witness ==
    \E c, d \in Callers, id \in JobIds :
        /\ c # d /\ Has(id)
        /\ ret[c] = Some(CurRef(id)) /\ ret[d] = ret[c]
        /\ snap[c] = snap[d] /\ ~IsNone(snap[c])
        /\ lastOp[id].op = "get_status"

\* C18: an upload job that ended Failed has no processed dataset.
C18_NoArtifactAfterFailure ==
    \A j \in JobIds :
        (Upload(j) /\ Ended(j) /\ Has(j) /\ Status(j) = FAILED) => ~processed[j]

\* C19: a job's state changes only from Pending to Processing and from
\* Processing to Completed or Failed.
C19_StateMachine ==
    /\ [](\A j \in JobIds : Has(j) => Status(j) \in JobStatus)
    /\ [][\A j \in JobIds :
            /\ (~Has(j) /\ Has(j)') => Status(j)' = PENDING
            /\ (Has(j) /\ Has(j)' /\ Status(j)' # Status(j))
               => \/ Status(j) = PENDING /\ Status(j)' = PROCESSING
                  \/ Status(j) = PROCESSING /\ Status(j)' \in {COMPLETED, FAILED}]_vars

\* the progress reported by the stages, and by set_result
Checkpoints == <<0, 10, 30, 60, 90, 100>>
Progress(j) == objs[CurRef(j)].progress

\* C20: progress starts at 0 and is always one of 0, 10, 30, 60, 90, 100;
\* a step keeps it or takes it to the next of these; it becomes 100 only
\* in the step that makes the job Completed; the step that makes a job
\* Failed leaves it as it is.
C20_ProgressCheckpoints ==
    /\ [](\A j \in JobIds :
            Has(j) => \E i \in DOMAIN Checkpoints : Progress(j) = Checkpoints[i])
    /\ [][\A j \in JobIds :
            /\ (~Has(j) /\ Has(j)') => Progress(j)' = 0
            /\ (Has(j) /\ Has(j)')
               => /\ \/ Progress(j)' = Progress(j)
                     \/ \E i \in 1..(Len(Checkpoints) - 1) :
                           Progress(j) = Checkpoints[i] /\ Progress(j)' = Checkpoints[i + 1]
                  /\ (Progress(j)' = 100 /\ Progress(j) # 100)
                        => (Status(j)' = COMPLETED /\ Status(j) # COMPLETED)
                  /\ (Status(j)' = FAILED /\ Status(j) # FAILED)
                        => Progress(j)' = Progress(j)]_vars

\* C21: when the preview of the uploaded file does not parse or has no
\* columns, the background stage is not scheduled and the job is never
\* Processing; once the handler is over the temp file is gone, the job is
\* Failed with an error, and the client has an error response.
C21_InvalidPreviewFailsJob ==
    /\ [](\A j \in JobIds :
            raised[j] = "preview"
            => /\ ~scheduled[j]
               /\ Has(j) /\ Status(j) \in {PENDING, FAILED}
               /\ pc[j] \in {"up_fail", "done"})
    /\ [](\A j \in JobIds :
            (raised[j] = "preview" /\ Ended(j))
            => /\ IsNone(temp[j])
               /\ Status(j) = FAILED /\ ErrorSet(j)
               /\ response[j] \in {Some(400), Some(500)})

\* the handler of upload j rejected it: the job is Failed and the client has
\* the handler's answer
Rejected(j) == Ended(j) /\ Has(j) /\ Status(j) = FAILED /\ ~IsNone(response[j])

\* C23: an upload rejected after its save raised HTTPException(413) is
\* answered with status 413, and with another status than an upload
\* rejected because its preview failed.
C23_TooLargeIs413 ==
    /\ \A j \in JobIds :
          (raised[j] = "413" /\ Rejected(j)) => response[j] = Some(413)
    /\ \A j, k \in JobIds :
          (raised[j] = "413" /\ raised[k] = "preview" /\ Rejected(j) /\ Rejected(k))
          => response[j] # response[k]

\* C24: when the dataset of the referenced file id is not on disk, the task
\* goes from its first stage to its except clause with the not-found
\* message, having made no model call and run no code; the job then is
\* Failed with that message and has no result.
C24_MissingDatasetFailsJob ==
    /\ [][\A j \in JobIds :
            (pc[j] = "an_u10" /\ pc'[j] # "an_u10" /\ ~processed[loc[j].file_id])
            => (pc'[j] = "an_err" /\ loc'[j].e = Some(NotFound))]_vars
    /\ [](\A j \in JobIds :
            (pc[j] = "an_err" /\ loc[j].e = Some(NotFound))
            => (IsNone(loc[j].code) /\ IsNone(loc[j].answer)))
    /\ [][\A j \in JobIds :
            (pc[j] = "an_err" /\ loc[j].e = Some(NotFound) /\ pc'[j] # "an_err")
            => /\ pc'[j] = "done"
               /\ Has(j)' /\ Status(j)' = FAILED
               /\ objs'[CurRef(j)'].error = Some(NotFound)]_vars
    /\ [](\A j \in JobIds :
            (Has(j) /\ objs[CurRef(j)].error = Some(NotFound))
            => (Status(j) = FAILED /\ ~ResultSet(j) /\ pc[j] = "done"))

\* C25: the created_at of the record that create_job inserts is the clock
\* value of the call, and is not earlier than the updated_at of any record
\* that was in the store before.
C25_CreatedAtIsCreationTime ==
    [][\A c \in Callers, id \in JobIds :
          Returns(c, "create_job", id)
          => LET new == objs'[<<id, _jobs'[id]>>] IN
             /\ new.created_at = now
             /\ \A r \in DOMAIN objs : new.created_at >= objs[r].updated_at]_vars

\* the next step of the handler or background task of job k
JobStep(k) ==
    \/ UploadCreate(k) \/ UploadRead(k) \/ UploadFail(k) \/ UploadRespond(k)
    \/ IngestLoad(k) \/ IngestClean(k) \/ IngestProfile(k) \/ IngestSave(k)
    \/ IngestResult(k) \/ IngestError(k)
    \/ ChatCreate(k)
    \/ AnalyzeLoad(k) \/ AnalyzeAsk(k) \/ AnalyzeLlm(k) \/ AnalyzeExec(k)
    \/ AnalyzeFinal(k) \/ AnalyzeResult(k) \/ AnalyzeError(k)

\* job j's task is suspended in the model call, or in a read of the upload
\* (a process that generated code has ended has no suspended task)
Waiting(j) ==
    /\ pc[j] \in {"an_llm", "up_read"}
    /\ \A k \in JobIds : pc[k] # "exited"

\* C22: while a task is suspended in the model call or in a file read, the
\* store's lock is free and no task is inside the store; and, once the
\* coroutine that is running has reached its next await, the step of every
\* other job's handler or background task can be taken, and so can a status
\* poll.
C22_StoreFreeWhileWaiting ==
    \A j \in JobIds :
        Waiting(j)
        => /\ ~_locked /\ inside = {}
           /\ (\A m \in JobIds : ~Running(m))
                => \A k \in JobIds \ {j} :
                      /\ ~(pc[k] = "idle" \/ Ended(k)) => ENABLED JobStep(k)
                      /\ ENABLED get_upload_status(k)

====
